---- MODULE Spec2Model ----
(***************************************************************************)
(* Model of the inotify-watch subsystem of libinotify-kqueue               *)
(* (src/inotify-watch.c): one i_watch, its watch-set of kqueue vnode       *)
(* watches, and its snapshot of directory entries (dependency items).      *)
(*                                                                         *)
(* The i_watch and everything it touches (open file descriptors, ghost     *)
(* flags recording forbidden events) is kept in one record, the variable   *)
(* `iw`; each C function is an operator from such a record (and the        *)
(* environment's answers to its system calls) to the record after the      *)
(* call.  An action is one call of a public function by the worker.        *)
(***************************************************************************)
EXTENDS Integers, Sequences, FiniteSets, TLC

\* ------------------------------------------------------------------ bounds
MaxNames == 2       \* entry names a directory may hold: 1 .. MaxNames
MaxInode == 3       \* inode numbers of the device: 1 .. MaxInode

Names  == 1 .. MaxNames
Inodes == 1 .. MaxInode

\* ------------------------------------------------------- program constants
DI_PARENT   == 0    \* the sentinel dependency of the USER watch
ParentInode == 1    \* st_ino of the watched target (iw->inode)
ParentFd    == 0    \* the descriptor handed to iwatch_init

Types   == {"REG", "DIR"}          \* file types the translator can watch
UNK     == "UNK"                   \* S_ISUNK: type hint not known
Events  == {"IN_CREATE", "IN_MODIFY", "IN_ATTRIB"}

\* ---------------------------------------------------------- flag translator
\* inotify_to_kqueue (flags, mode, is_parent)
inotify_to_kqueue(flags, mode, is_parent) ==
    IF mode \notin Types THEN {}
    ELSE   (IF "IN_ATTRIB" \in flags THEN {"NOTE_ATTRIB"} ELSE {})
      \cup (IF "IN_MODIFY" \in flags /\ mode = "REG" THEN {"NOTE_WRITE"} ELSE {})
      \cup (IF is_parent /\ mode = "DIR" THEN {"NOTE_WRITE"} ELSE {})
      \cup (IF is_parent THEN {"NOTE_DELETE"} ELSE {})

\* ------------------------------------------------------------ dependency items
NoDep == [inode |-> 0, type |-> "ABSENT"]
DepItems == [inode : Inodes, type : Types \cup {UNK}]

S_ISUNK(type) == type = UNK

\* di_settype (di, mode): the hint is overwritten by the mode's file type
di_settype(di, mode) == [di EXCEPT !.type = mode]

\* the entries of the snapshot, DL_FOREACH order = ascending name
InList(deps) == {n \in Names : deps[n] # NoDep}

\* ------------------------------------------------------------------- watches
NoWatch == [inode |-> 0, fd |-> -1, flags |-> "NONE", fflags |-> {},
            kind |-> "NONE", deps |-> <<>>]

watch_deps_empty(w) == w.deps = <<>>

\* watch_find_dep (w, di): pointer equality on the dependency item
watch_find_dep(w, di) == \E i \in 1 .. Len(w.deps) : w.deps[i] = di

RECURSIVE RemoveFirst(_, _)
RemoveFirst(seq, x) ==
    IF seq = <<>> THEN <<>>
    ELSE IF Head(seq) = x THEN Tail(seq)
    ELSE <<Head(seq)>> \o RemoveFirst(Tail(seq), x)

\* watch_set_find (&iw->watches, inode)
watch_set_find(s, inode) ==
    IF \E w \in s.watches : w.inode = inode
    THEN CHOOSE w \in s.watches : w.inode = inode
    ELSE NoWatch

\* close (fd)
close(s, fd) ==
    IF fd \in s.fds THEN [s EXCEPT !.fds = @ \ {fd}]
    ELSE [s EXCEPT !.doubleClose = TRUE]

\* open: the lowest descriptor not in use
LowestFree(fds) == CHOOSE fd \in 1 .. Cardinality(fds) + 1 :
                      /\ fd \notin fds
                      /\ \A g \in 1 .. Cardinality(fds) + 1 : g \notin fds => fd <= g

\* watch_set_insert: RB_INSERT refuses a key that is already in the tree
watch_set_insert(s, w) ==
    IF \E v \in s.watches : v.inode = w.inode
    THEN [s EXCEPT !.dupInsert = TRUE]
    ELSE [s EXCEPT !.watches = @ \cup {w}]

\* watch_set_delete: RB_REMOVE and watch_free, which closes the descriptor
watch_set_delete(s, w) ==
    IF w \in s.watches
    THEN close([s EXCEPT !.watches = @ \ {w}], w.fd)
    ELSE s

\* watch_register_event (w, fflags): replace the kqueue registration
watch_register_event(s, w, fflags) ==
    IF w \in s.watches
    THEN [s EXCEPT !.watches = (@ \ {w}) \cup {[w EXCEPT !.fflags = fflags]}]
    ELSE s

\* watch_init (iw, watch_type, fd, st): NoWatch when the translation is
\* empty or the registration fails
watch_init(s, kind, fd, st, ok) ==
    LET fflags == inotify_to_kqueue(s.flags, st.type, kind = "USER")
    IN  IF fflags = {} \/ ~ok THEN NoWatch
        ELSE [inode |-> st.ino, fd |-> fd, flags |-> st.type, fflags |-> fflags,
              kind |-> kind, deps |-> <<>>]

\* watch_add_dep (w, di): SLIST_INSERT_HEAD of a new reference
watch_add_dep(s, w, di) ==
    IF w \in s.watches
    THEN [s EXCEPT !.watches = (@ \ {w}) \cup {[w EXCEPT !.deps = <<di>> \o @]}]
    ELSE s

\* watch_del_dep (w, di): drop the reference; the watch whose last
\* dependency left removes itself from the watch-set
watch_del_dep(s, w, di) ==
    LET v == [w EXCEPT !.deps = RemoveFirst(@, di)]
    IN  IF w \notin s.watches THEN s
        ELSE IF watch_deps_empty(v) THEN watch_set_delete(s, w)
        ELSE [s EXCEPT !.watches = (@ \ {w}) \cup {v}]

\* watch_chg_dep (w, di_from, di_to)
watch_chg_dep(s, w, di_from, di_to) ==
    LET v == [w EXCEPT !.deps =
                 [i \in 1 .. Len(@) |->
                    IF @[i] = di_from
                       /\ \A j \in 1 .. i - 1 : @[j] # di_from
                    THEN di_to ELSE @[i]]]
    IN  IF w \in s.watches
        THEN [s EXCEPT !.watches = (@ \ {w}) \cup {v}]
        ELSE s

\* ----------------------------------------------- the environment's answers
\* What the system calls of one iwatch_add_subwatch call answer:
\*   open, fstat, winit, adddep: whether watch_open, fstat, watch_init (the
\*     kevent registration) and watch_add_dep (calloc) succeed;
\*   race: "none" (fstat sees the listed inode), "replaced" (the entry was
\*     replaced after the listing by a file with another inode of the same
\*     device, ino, which is not the watched directory itself), "mount"
\*     (the entry is a mountpoint: another device);
\*   type: the file type fstat sees; lstat: the type fstatat sees, UNK when
\*     fstatat fails.
DefaultEnv == [open |-> TRUE, fstat |-> TRUE, race |-> "none", ino |-> 0,
               type |-> "REG", winit |-> TRUE, adddep |-> TRUE, lstat |-> UNK]

\* fstat (fd, &st) on the opened entry.  The file type of an entry that was
\* not replaced is the one the listing gave, when it gave one; a file of this
\* device that a watch holds open has the type the watch recorded.
fstat(s, di, e) ==
    LET ino == IF e.race = "none" THEN di.inode ELSE e.ino
    IN  [ino  |-> ino,
         same |-> e.race # "mount",
         type |-> IF e.race = "none" /\ ~S_ISUNK(di.type) THEN di.type
                  ELSE IF e.race = "replaced" /\ \E w \in s.watches : w.inode = ino
                       THEN watch_set_find(s, ino).flags
                  ELSE e.type]

LstatEnvs(di) ==
    IF S_ISUNK(di.type)
    THEN {[DefaultEnv EXCEPT !.lstat = t] : t \in Types \cup {UNK}}
    ELSE {DefaultEnv}

StatEnvs(di) ==
         {[DefaultEnv EXCEPT !.type = t] :
             t \in IF S_ISUNK(di.type) THEN Types ELSE {di.type}}
    \cup {[DefaultEnv EXCEPT !.race = "replaced", !.ino = i, !.type = t] :
             i \in Inodes \ {di.inode, ParentInode}, t \in Types}
    \cup {[DefaultEnv EXCEPT !.race = "mount", !.ino = i, !.type = "DIR"] :
             i \in {CHOOSE j \in Inodes : j # di.inode}}

\* the answers that make a difference to iwatch_add_subwatch (iw, di) in s
EnvFor(s, n) ==
    LET di == s.deps[n]
    IN  IF s.is_closed THEN {DefaultEnv}
        ELSE IF s.skip_subfiles THEN LstatEnvs(di)
        ELSE IF \E w \in s.watches : w.inode = di.inode
             THEN {[DefaultEnv EXCEPT !.adddep = b] : b \in BOOLEAN}
        ELSE IF ~S_ISUNK(di.type) /\ inotify_to_kqueue(s.flags, di.type, FALSE) = {}
             THEN {DefaultEnv}
        ELSE      {[e EXCEPT !.open = FALSE] : e \in LstatEnvs(di)}
             \cup {[e EXCEPT !.fstat = FALSE] : e \in LstatEnvs(di)}
             \cup {[e EXCEPT !.winit = FALSE] : e \in StatEnvs(di)}
             \cup {[e EXCEPT !.adddep = b] : e \in StatEnvs(di), b \in BOOLEAN}

\* ------------------------------------------------------ iwatch_add_subwatch
\* The result of a call: the i_watch after it, the returned watch (its fd,
\* NullRet for NULL), and what the call did: whether watch_open was
\* attempted, whether fstat or fstatat was attempted, and whether anything
\* failed or raced.
NullRet == -1
Result(s, ret, opened, statted, fail) ==
    [s |-> s, ret |-> ret, opened |-> opened, statted |-> statted,
     fail |-> fail]

SetDep(s, n, di) == [s EXCEPT !.deps[n] = di]

\* lstat: (lines 276-284)
Lstat(s, n, e, opened, statted, fail) ==
    LET di == s.deps[n]
    IN  IF S_ISUNK(di.type)
        THEN IF e.lstat # UNK
             THEN Result(SetDep(s, n, di_settype(di, e.lstat)),
                         NullRet, opened, TRUE, fail)
             ELSE Result(s, NullRet, opened, TRUE, TRUE)
        ELSE Result(s, NullRet, opened, statted, fail)

\* the hold step deleting the watch whenever watch_add_dep fails
Hold_AlwaysDelete(s, w, n, e, opened, statted, fail) ==
    IF e.adddep
    THEN Result(watch_add_dep(s, w, n), w.fd, opened, statted, fail)
    ELSE Result(watch_set_delete(s, w), w.fd, opened, statted, TRUE)

\* the hold step never deleting the watch
Hold_NeverDelete(s, w, n, e, opened, statted, fail) ==
    IF e.adddep
    THEN Result(watch_add_dep(s, w, n), w.fd, opened, statted, fail)
    ELSE Result(s, w.fd, opened, statted, TRUE)

\* hold: (lines 270-274)
Hold(s, w, n, e, opened, statted, fail) ==
    IF e.adddep
    THEN Result(watch_add_dep(s, w, n), w.fd, opened, statted, fail)
    ELSE IF watch_deps_empty(w)
         THEN Result(watch_set_delete(s, w), w.fd, opened, statted, TRUE)
         ELSE Result(s, w.fd, opened, statted, TRUE)

\* lines 245-268 leaving the listed inode in the item after a replacement
Opened_KeepInode(s, n, e, fd, st) ==
    LET di     == s.deps[n]
        raced  == di.inode # st.ino /\ st.same
        st1    == IF di.inode # st.ino /\ ~st.same
                  THEN [st EXCEPT !.ino = di.inode] ELSE st
        found  == IF raced THEN watch_set_find(s, st.ino) ELSE NoWatch
        w      == watch_init(s, "DEPENDENCY", fd, st1, e.winit)
        fail   == e.race # "none"
    IN  IF found # NoWatch
        THEN Hold(close(s, fd), found, n, e, TRUE, TRUE, fail)
        ELSE IF w = NoWatch
             THEN Result(close(s, fd), NullRet, TRUE, TRUE, TRUE)
             ELSE Hold(watch_set_insert(s, w), w, n, e, TRUE, TRUE, fail)

\* lines 245-268 keying the watch of a mountpoint by the inode fstat saw
Opened_MountIno(s, n, e, fd, st) ==
    LET di     == s.deps[n]
        raced  == di.inode # st.ino /\ st.same
        s1     == IF raced THEN SetDep(s, n, [di EXCEPT !.inode = st.ino]) ELSE s
        found  == IF raced THEN watch_set_find(s1, st.ino) ELSE NoWatch
        w      == watch_init(s1, "DEPENDENCY", fd, st, e.winit)
        fail   == e.race # "none"
    IN  IF found # NoWatch
        THEN Hold(close(s1, fd), found, n, e, TRUE, TRUE, fail)
        ELSE IF w = NoWatch
             THEN Result(close(s1, fd), NullRet, TRUE, TRUE, TRUE)
             ELSE Hold(watch_set_insert(s1, w), w, n, e, TRUE, TRUE, fail)

\* lines 245-268 keeping the new descriptor open when a watch is adopted
Opened_NoClose(s, n, e, fd, st) ==
    LET di     == s.deps[n]
        raced  == di.inode # st.ino /\ st.same
        st1    == IF di.inode # st.ino /\ ~st.same
                  THEN [st EXCEPT !.ino = di.inode] ELSE st
        s1     == IF raced THEN SetDep(s, n, [di EXCEPT !.inode = st.ino]) ELSE s
        found  == IF raced THEN watch_set_find(s1, st.ino) ELSE NoWatch
        w      == watch_init(s1, "DEPENDENCY", fd, st1, e.winit)
        fail   == e.race # "none"
    IN  IF found # NoWatch
        THEN Hold(s1, found, n, e, TRUE, TRUE, fail)
        ELSE IF w = NoWatch
             THEN Result(close(s1, fd), NullRet, TRUE, TRUE, TRUE)
             ELSE Hold(watch_set_insert(s1, w), w, n, e, TRUE, TRUE, fail)

\* lines 245-268 without the second watch_set_find of line 254
Opened_NoRetry(s, n, e, fd, st) ==
    LET di     == s.deps[n]
        raced  == di.inode # st.ino /\ st.same
        st1    == IF di.inode # st.ino /\ ~st.same
                  THEN [st EXCEPT !.ino = di.inode] ELSE st
        s1     == IF raced THEN SetDep(s, n, [di EXCEPT !.inode = st.ino]) ELSE s
        w      == watch_init(s1, "DEPENDENCY", fd, st1, e.winit)
        fail   == e.race # "none"
    IN  IF w = NoWatch
        THEN Result(close(s1, fd), NullRet, TRUE, TRUE, TRUE)
        ELSE Hold(watch_set_insert(s1, w), w, n, e, TRUE, TRUE, fail)

\* lines 245-268: the entry is open on fd and fstat answered st
Opened(s, n, e, fd, st) ==
    LET di     == s.deps[n]
        raced  == di.inode # st.ino /\ st.same
        st1    == IF di.inode # st.ino /\ ~st.same
                  THEN [st EXCEPT !.ino = di.inode] ELSE st
        s1     == IF raced THEN SetDep(s, n, [di EXCEPT !.inode = st.ino]) ELSE s
        found  == IF raced THEN watch_set_find(s1, st.ino) ELSE NoWatch
        w      == watch_init(s1, "DEPENDENCY", fd, st1, e.winit)
        fail   == e.race # "none"
    IN  IF found # NoWatch
        THEN Hold(close(s1, fd), found, n, e, TRUE, TRUE, fail)
        ELSE IF w = NoWatch
             THEN Result(close(s1, fd), NullRet, TRUE, TRUE, TRUE)
             ELSE Hold(watch_set_insert(s1, w), w, n, e, TRUE, TRUE, fail)

\* lines 218-243 returning the watch found at line 218 without holding the item
Lookup_NoHold(s, n, e) ==
    LET di == s.deps[n]
        w  == watch_set_find(s, di.inode)
        fd == LowestFree(s.fds)
        s1 == [s EXCEPT !.fds = @ \cup {fd}]
    IN  IF w # NoWatch
        THEN Result(SetDep(s, n, di_settype(di, w.flags)), w.fd,
                    FALSE, FALSE, FALSE)
        ELSE IF ~S_ISUNK(di.type)
                /\ inotify_to_kqueue(s.flags, di.type, FALSE) = {}
             THEN Result(s, NullRet, FALSE, FALSE, FALSE)
        ELSE IF ~e.open THEN Lstat(s, n, e, TRUE, FALSE, TRUE)
        ELSE IF ~e.fstat THEN Lstat(close(s1, fd), n, e, TRUE, TRUE, TRUE)
        ELSE Opened(SetDep(s1, n, di_settype(di, fstat(s, di, e).type)),
                    n, e, fd, fstat(s, di, e))

\* lines 218-243 without the close (fd) of line 240
Lookup_NoCloseOnFstat(s, n, e) ==
    LET di == s.deps[n]
        w  == watch_set_find(s, di.inode)
        fd == LowestFree(s.fds)
        s1 == [s EXCEPT !.fds = @ \cup {fd}]
    IN  IF w # NoWatch
        THEN Hold(SetDep(s, n, di_settype(di, w.flags)), w, n, e,
                  FALSE, FALSE, FALSE)
        ELSE IF ~S_ISUNK(di.type)
                /\ inotify_to_kqueue(s.flags, di.type, FALSE) = {}
             THEN Result(s, NullRet, FALSE, FALSE, FALSE)
        ELSE IF ~e.open THEN Lstat(s, n, e, TRUE, FALSE, TRUE)
        ELSE IF ~e.fstat THEN Lstat(s1, n, e, TRUE, TRUE, TRUE)
        ELSE Opened(SetDep(s1, n, di_settype(di, fstat(s, di, e).type)),
                    n, e, fd, fstat(s, di, e))

\* lines 218-243 consulting the translator before the watch-set
Lookup_TranslatorFirst(s, n, e) ==
    LET di == s.deps[n]
        w  == watch_set_find(s, di.inode)
        fd == LowestFree(s.fds)
        s1 == [s EXCEPT !.fds = @ \cup {fd}]
    IN  IF ~S_ISUNK(di.type)
           /\ inotify_to_kqueue(s.flags, di.type, FALSE) = {}
        THEN Result(s, NullRet, FALSE, FALSE, FALSE)
        ELSE IF w # NoWatch
             THEN Hold(SetDep(s, n, di_settype(di, w.flags)), w, n, e,
                       FALSE, FALSE, FALSE)
        ELSE IF ~e.open THEN Lstat(s, n, e, TRUE, FALSE, TRUE)
        ELSE IF ~e.fstat THEN Lstat(close(s1, fd), n, e, TRUE, TRUE, TRUE)
        ELSE Opened(SetDep(s1, n, di_settype(di, fstat(s, di, e).type)),
                    n, e, fd, fstat(s, di, e))

\* lines 218-243: look the inode up, consult the translator, open and fstat
Lookup(s, n, e) ==
    LET di == s.deps[n]
        w  == watch_set_find(s, di.inode)
        fd == LowestFree(s.fds)
        s1 == [s EXCEPT !.fds = @ \cup {fd}]
    IN  IF w # NoWatch
        THEN Hold(SetDep(s, n, di_settype(di, w.flags)), w, n, e,
                  FALSE, FALSE, FALSE)
        ELSE IF ~S_ISUNK(di.type)
                /\ inotify_to_kqueue(s.flags, di.type, FALSE) = {}
             THEN Result(s, NullRet, FALSE, FALSE, FALSE)
        ELSE IF ~e.open THEN Lstat(s, n, e, TRUE, FALSE, TRUE)
        ELSE IF ~e.fstat THEN Lstat(close(s1, fd), n, e, TRUE, TRUE, TRUE)
        ELSE Opened(SetDep(s1, n, di_settype(di, fstat(s, di, e).type)),
                    n, e, fd, fstat(s, di, e))

\* iwatch_add_subwatch without the is_closed test
iwatch_add_subwatch_NoClosedCheck(s, n, e) ==
    IF s.skip_subfiles THEN Lstat(s, n, e, FALSE, FALSE, FALSE)
    ELSE Lookup(s, n, e)

\* iwatch_add_subwatch without the skip_subfiles test
iwatch_add_subwatch_NoSkipCheck(s, n, e) ==
    IF s.is_closed THEN Result(s, NullRet, FALSE, FALSE, FALSE)
    ELSE Lookup(s, n, e)

\* iwatch_add_subwatch (iw, di), di being entry n of the snapshot
iwatch_add_subwatch(s, n, e) ==
    IF s.is_closed THEN Result(s, NullRet, FALSE, FALSE, FALSE)
    ELSE IF s.skip_subfiles THEN Lstat(s, n, e, FALSE, FALSE, FALSE)
    ELSE Lookup(s, n, e)

\* ------------------------------------------------------ iwatch_del_subwatch
\* iwatch_del_subwatch removing the watch it finds, whoever else it holds
iwatch_del_subwatch_CloseAlways(s, n) ==
    LET w == watch_set_find(s, s.deps[n].inode)
    IN  IF w # NoWatch THEN watch_set_delete(s, w) ELSE s

\* iwatch_del_subwatch (iw, di), di being entry n of the snapshot
iwatch_del_subwatch(s, n) ==
    LET w == watch_set_find(s, s.deps[n].inode)
    IN  IF w # NoWatch THEN watch_del_dep(s, w, n) ELSE s

\* ----------------------------------------------------- iwatch_move_subwatch
\* the move adding the reference to di_to and leaving the one to di_from
iwatch_move_subwatch_AddOnly(s, from, to) ==
    LET w == watch_set_find(s, s.deps[from].inode)
    IN  IF w # NoWatch /\ ~watch_deps_empty(w)
        THEN watch_add_dep(s, w, to) ELSE s

\* the move done as watch_del_dep followed by watch_add_dep
iwatch_move_subwatch_DelAdd(s, from, to) ==
    LET w == watch_set_find(s, s.deps[from].inode)
    IN  IF w # NoWatch /\ ~watch_deps_empty(w)
        THEN watch_add_dep(watch_del_dep(s, w, from), w, to) ELSE s

\* iwatch_move_subwatch (iw, di_from, di_to): di_from is entry `from` of the
\* snapshot, di_to the item `to` of the new listing, with the same inode
iwatch_move_subwatch(s, from, to) ==
    LET w == watch_set_find(s, s.deps[from].inode)
    IN  IF w # NoWatch /\ ~watch_deps_empty(w)
        THEN watch_chg_dep(s, w, from, to) ELSE s

\* ------------------------------------------------------ iwatch_update_flags
\* the ghost flags of the calls made so far by a handler, merged with those
\* of one more iwatch_add_subwatch call
Merge(r, q) ==
    [s |-> q.s, ret |-> NullRet, opened |-> r.opened \/ q.opened,
     statted |-> r.statted \/ q.statted, fail |-> r.fail \/ q.fail]

\* is entry n unwatched (line 361)
Unwatched(s, n) ==
    LET w == watch_set_find(s, s.deps[n].inode)
    IN  w = NoWatch \/ ~watch_find_dep(w, n)

\* the loop body dropping every entry a watch holds
UpdateStep_DropHeld(r, n, e) ==
    LET w == watch_set_find(r.s, r.s.deps[n].inode)
    IN  IF Unwatched(r.s, n)
        THEN Merge(r, iwatch_add_subwatch(r.s, n, e))
        ELSE [r EXCEPT !.s = watch_del_dep(r.s, w, n)]

\* the loop body leaving unwatched entries alone
UpdateStep_NoRetry(r, n, e) ==
    LET w      == watch_set_find(r.s, r.s.deps[n].inode)
        fflags == inotify_to_kqueue(r.s.flags, w.flags, FALSE)
    IN  IF Unwatched(r.s, n) THEN r
        ELSE IF fflags = {}
             THEN [r EXCEPT !.s = watch_del_dep(r.s, w, n)]
             ELSE [r EXCEPT !.s = watch_register_event(r.s, w, fflags)]

\* the loop body leaving the registration of a held entry's watch as it is
UpdateStep_NoRegister(r, n, e) ==
    LET w      == watch_set_find(r.s, r.s.deps[n].inode)
        fflags == inotify_to_kqueue(r.s.flags, w.flags, FALSE)
    IN  IF Unwatched(r.s, n)
        THEN Merge(r, iwatch_add_subwatch(r.s, n, e))
        ELSE IF fflags = {}
             THEN [r EXCEPT !.s = watch_del_dep(r.s, w, n)]
             ELSE r

\* the body of the loop at lines 359-372 for entry n
UpdateStep(r, n, e) ==
    LET w      == watch_set_find(r.s, r.s.deps[n].inode)
        fflags == inotify_to_kqueue(r.s.flags, w.flags, FALSE)
    IN  IF Unwatched(r.s, n)
        THEN Merge(r, iwatch_add_subwatch(r.s, n, e))
        ELSE IF fflags = {}
             THEN [r EXCEPT !.s = watch_del_dep(r.s, w, n)]
             ELSE [r EXCEPT !.s = watch_register_event(r.s, w, fflags)]

\* DL_FOREACH (iter, &iw->deps) from entry n on: every result the
\* environment's answers allow
RECURSIVE UpdateLoop(_, _)
UpdateLoop(r, n) ==
    IF n > MaxNames THEN {r}
    ELSE IF r.s.deps[n] = NoDep THEN UpdateLoop(r, n + 1)
    ELSE UNION {UpdateLoop(UpdateStep(r, n, e), n + 1) :
                  e \in IF Unwatched(r.s, n) THEN EnvFor(r.s, n) ELSE {DefaultEnv}}

\* iwatch_update_flags always replacing the mask
iwatch_update_flags_Replace(s, flags) ==
    LET s1     == [s EXCEPT !.flags = flags]
        w      == watch_set_find(s1, ParentInode)
        fflags == inotify_to_kqueue(flags, w.flags, TRUE)
        s2     == watch_register_event(s1, w, fflags)
    IN  IF w = NoWatch \/ watch_deps_empty(w)
        THEN {Result([s1 EXCEPT !.assertFailed = TRUE], NullRet,
                     FALSE, FALSE, FALSE)}
        ELSE UpdateLoop(Result(s2, NullRet, FALSE, FALSE, FALSE), 1)

\* iwatch_update_flags (iw, flags); assertFailed records the assertions of
\* lines 352-353
iwatch_update_flags(s, flags) ==
    LET merged == IF "IN_MASK_ADD" \in flags THEN flags \cup s.flags ELSE flags
        s1     == [s EXCEPT !.flags = merged]
        w      == watch_set_find(s1, ParentInode)
        fflags == inotify_to_kqueue(merged, w.flags, TRUE)
        s2     == watch_register_event(s1, w, fflags)
    IN  IF w = NoWatch \/ watch_deps_empty(w)
        THEN {Result([s1 EXCEPT !.assertFailed = TRUE], NullRet,
                     FALSE, FALSE, FALSE)}
        ELSE UpdateLoop(Result(s2, NullRet, FALSE, FALSE, FALSE), 1)

\* -------------------------------------------------------------- iwatch_free
RECURSIVE FreeLoop(_, _)
FreeLoop(s, n) ==
    IF n > MaxNames THEN s
    ELSE IF s.deps[n] = NoDep THEN FreeLoop(s, n + 1)
    ELSE FreeLoop(iwatch_del_subwatch(s, n), n + 1)

\* iwatch_free without the loop over the snapshot
iwatch_free_ParentOnly(s) ==
    LET w  == watch_set_find(s, ParentInode)
        s2 == IF w # NoWatch THEN watch_del_dep(s, w, DI_PARENT) ELSE s
    IN  [s2 EXCEPT !.deps = [n \in Names |-> NoDep]]

iwatch_free(s) ==
    LET s1 == FreeLoop(s, 1)
        w  == watch_set_find(s1, ParentInode)
        s2 == IF w # NoWatch THEN watch_del_dep(s1, w, DI_PARENT) ELSE s1
    IN  [s2 EXCEPT !.deps = [n \in Names |-> NoDep]]

\* -------------------------------------------------------------- iwatch_init
Blank == [flags |-> {}, mode |-> "NONE", is_closed |-> FALSE,
          skip_subfiles |-> FALSE, deps |-> [n \in Names |-> NoDep],
          watches |-> {}, fds |-> {ParentFd}, orphans |-> {},
          dupInsert |-> FALSE, doubleClose |-> FALSE,
          assertFailed |-> FALSE]

\* the loop at lines 158-164
RECURSIVE InitLoop(_, _)
InitLoop(r, n) ==
    IF n > MaxNames THEN {r}
    ELSE IF r.s.deps[n] = NoDep THEN InitLoop(r, n + 1)
    ELSE UNION {InitLoop(Merge(r, iwatch_add_subwatch(r.s, n, e)), n + 1) :
                  e \in EnvFor(r.s, n)}

Failed(s) == Result(s, NullRet, FALSE, FALSE, TRUE)

\* iwatch_init (wrk, fd, flags).  in: what the calls before the loop answer:
\*   fstat, alloc, scan, winit, adddep: whether fstat, calloc, dl_listing,
\*   watch_init and watch_add_dep (parent, DI_PARENT) succeed; mode: the
\*   target's file type; listing: what dl_listing returns; skip: what
\*   iwatch_want_skip_subfiles returns.
\* A result with ret = NullRet and fail set before the loop is a NULL return.
iwatch_init(flags, in) ==
    LET st     == [ino |-> ParentInode, same |-> TRUE, type |-> in.mode]
        isdir  == in.mode = "DIR"
        s1     == [Blank EXCEPT !.flags = flags, !.mode = in.mode,
                                !.deps = IF isdir THEN in.listing ELSE @,
                                !.skip_subfiles = isdir /\ in.skip]
        parent == watch_init(s1, "USER", ParentFd, st, in.winit)
        s2     == watch_set_insert(s1, parent)
        s3     == watch_add_dep(s2, parent, DI_PARENT)
    IN  IF ~in.fstat \/ ~in.alloc THEN {[Failed(Blank) EXCEPT !.ret = -2]}
        ELSE IF isdir /\ ~in.scan THEN {[Failed(iwatch_free(Blank)) EXCEPT !.ret = -2]}
        ELSE IF parent = NoWatch THEN {[Failed(iwatch_free(s1)) EXCEPT !.ret = -2]}
        ELSE IF ~in.adddep
             THEN {[Failed(iwatch_free([s1 EXCEPT !.orphans = @ \cup {parent}]))
                      EXCEPT !.ret = -2]}
        ELSE IF isdir THEN InitLoop(Result(s3, NullRet, FALSE, FALSE, FALSE), 1)
        ELSE {Result(s3, NullRet, FALSE, FALSE, FALSE)}

\* ============================================================ state machine
VARIABLES pc, iw, last
vars == <<pc, iw, last>>

MaskInputs == {{"IN_CREATE"}, {"IN_MODIFY"}, {"IN_ATTRIB", "IN_MASK_ADD"}}
Listings   == [Names -> DepItems \cup {NoDep}]
InitInputs ==
         {[fstat |-> TRUE, alloc |-> TRUE, scan |-> TRUE, winit |-> TRUE,
           adddep |-> TRUE, mode |-> "DIR", listing |-> l, skip |-> k] :
             l \in Listings, k \in BOOLEAN}
    \cup {[fstat |-> f, alloc |-> a, scan |-> c, winit |-> w, adddep |-> d,
           mode |-> m, listing |-> [n \in Names |-> NoDep], skip |-> FALSE] :
             f \in BOOLEAN, a \in BOOLEAN, c \in BOOLEAN, w \in BOOLEAN,
             d \in BOOLEAN, m \in Types}

\* what the last call was: the function, the entry it was given (for
\* iwatch_free: the number of watches it found), and the ghost flags of its
\* result
Last(op, n, r) ==
    [op |-> op, n |-> n, ret |-> r.ret, opened |-> r.opened,
     statted |-> r.statted, fail |-> r.fail]
NoResult(s) == Result(s, NullRet, FALSE, FALSE, FALSE)

Init ==
    /\ pc = "start"
    /\ iw = Blank
    /\ last = Last("none", 0, NoResult(Blank))

\* inotify_add_watch on a new path: iwatch_init
IwatchInit ==
    /\ pc = "start"
    /\ \E flags \in MaskInputs, in \in InitInputs :
         \E r \in iwatch_init(flags, in) :
            /\ pc' = IF r.ret = -2 THEN "failed" ELSE "live"
            /\ iw' = r.s
            /\ last' = Last("init", 0, [r EXCEPT !.ret = NullRet])

\* a rescan finds a new entry: the item joins the snapshot and
\* iwatch_add_subwatch is called on it
DirAdd ==
    /\ pc = "live" /\ iw.mode = "DIR"
    /\ \E n \in Names \ InList(iw.deps), di \in DepItems :
         LET s == SetDep(iw, n, di)
         IN  \E e \in EnvFor(s, n) :
               LET r == iwatch_add_subwatch(s, n, e)
               IN  /\ iw' = r.s
                   /\ last' = Last("add", n, r)
    /\ UNCHANGED pc

\* iwatch_add_subwatch on an entry of the snapshot that no watch holds
AddSubwatch ==
    /\ pc = "live" /\ iw.mode = "DIR"
    /\ \E n \in InList(iw.deps) :
         /\ ~\E w \in iw.watches : watch_find_dep(w, n)
         /\ \E e \in EnvFor(iw, n) :
               LET r == iwatch_add_subwatch(iw, n, e)
               IN  /\ iw' = r.s
                   /\ last' = Last("add", n, r)
    /\ UNCHANGED pc

\* a rescan misses an entry: iwatch_del_subwatch, then the item leaves the
\* snapshot
DirRemove ==
    /\ pc = "live" /\ iw.mode = "DIR"
    /\ \E n \in InList(iw.deps) :
         /\ iw' = SetDep(iwatch_del_subwatch(iw, n), n, NoDep)
         /\ last' = Last("del", 0, NoResult(iw))
    /\ UNCHANGED pc

\* a rescan finds an entry under a new name: iwatch_move_subwatch, then the
\* new item replaces the old one in the snapshot
DirRename ==
    /\ pc = "live" /\ iw.mode = "DIR"
    /\ \E from \in InList(iw.deps), to \in Names \ InList(iw.deps) :
         LET s == iwatch_move_subwatch(iw, from, to)
         IN  /\ iw' = [s EXCEPT !.deps[to] = s.deps[from], !.deps[from] = NoDep]
             /\ last' = Last("move", 0, NoResult(iw))
    /\ UNCHANGED pc

\* inotify_add_watch on a path already watched: iwatch_update_flags
UpdateFlags ==
    /\ pc = "live"
    /\ \E flags \in MaskInputs \cup {iw.flags} :
         \E r \in iwatch_update_flags(iw, flags) :
            /\ iw' = r.s
            /\ last' = Last("update", 0, r)
    /\ UNCHANGED pc

\* the worker marks the watch closed
Close ==
    /\ pc = "live"
    /\ ~iw.is_closed
    /\ iw' = [iw EXCEPT !.is_closed = TRUE]
    /\ last' = Last("close", 0, NoResult(iw))
    /\ UNCHANGED pc

\* inotify_rm_watch, or the end of the worker: iwatch_free
IwatchFree ==
    /\ pc = "live"
    /\ pc' = "freed"
    /\ iw' = iwatch_free(iw)
    /\ last' = Last("free", Cardinality(iw.watches), NoResult(iw))

Next ==
    \/ IwatchInit
    \/ DirAdd
    \/ AddSubwatch
    \/ DirRemove
    \/ DirRename
    \/ UpdateFlags
    \/ Close
    \/ IwatchFree

Spec == Init /\ [][Next]_vars

\* ================================================================== claims
Live == pc = "live"
Held(s, n) == \E w \in s.watches : watch_find_dep(w, n)
Children(s) == {w \in s.watches : w.kind = "DEPENDENCY"}

\* C1: no two watches of the watch-set have the same inode, and
\* watch_set_insert is never called with an inode that is already present.
C1_UniqueInode ==
    /\ ~iw.dupInsert
    /\ \A v \in iw.watches : \A w \in iw.watches : v.inode = w.inode => v = w

\* two entries share one watch: the second one met its inode in the watch-set
C1_Witness ==
    /\ Live /\ last.op = "add"
    /\ \E w \in Children(iw) : Len(w.deps) >= 2

\* C2: while is_closed is false, the watch found under the i_watch's own
\* inode is the USER watch and holds DI_PARENT; the assertions of
\* iwatch_update_flags never fail.
C2_ParentWatched ==
    /\ ~iw.assertFailed
    /\ (Live /\ ~iw.is_closed) =>
          LET w == watch_set_find(iw, ParentInode)
          IN  w # NoWatch /\ w.kind = "USER" /\ watch_find_dep(w, DI_PARENT)

\* iwatch_update_flags has run its assertions on a parent that also holds an
\* entry of the directory
C2_Witness ==
    /\ Live /\ ~iw.is_closed /\ last.op = "update"
    /\ Len(watch_set_find(iw, ParentInode).deps) >= 2

\* C3: at the return of every public operation every watch of the watch-set
\* has at least one dependency.
C3_NoEmptyWatch == \A w \in iw.watches : ~watch_deps_empty(w)

\* watch_add_dep failed in the hold step on a new watch: the call returned a
\* watch that is no longer in the watch-set
C3_Witness ==
    /\ Live /\ last.op = "add" /\ last.ret # NullRet /\ last.opened
    /\ ~\E w \in iw.watches : w.fd = last.ret

\* C5: after iwatch_free the watch-set is empty, no descriptor is left open
\* and none was closed twice.
C5_AllClosedOnce ==
    /\ ~iw.doubleClose
    /\ pc = "freed" => iw.watches = {} /\ iw.fds = {} /\ iw.orphans = {}

\* iwatch_free found the parent and two child watches
C5_Witness == pc = "freed" /\ last.op = "free" /\ last.n >= 3

\* the item of entry n is held by the watch found under its inode, or no
\* watch exists for that inode
HeldOrUnwatched(s, n) ==
    LET w == watch_set_find(s, s.deps[n].inode)
    IN  w = NoWatch \/ watch_find_dep(w, n)

PreAdd(n) ==
    IF n \notin InList(iw.deps) THEN {SetDep(iw, n, di) : di \in DepItems}
    ELSE IF Held(iw, n) THEN {}
    ELSE {iw}

WatchIds(s) == {<<w.inode, w.fd>> : w \in s.watches}

\* C7 as claimed: iwatch_update_flags with the current mask, IN_MASK_ADD not
\* set, creates no watch and destroys no watch.
C7_Original ==
    (Live /\ "IN_MASK_ADD" \notin iw.flags) =>
        \A r \in iwatch_update_flags(iw, iw.flags) : WatchIds(r.s) = WatchIds(iw)

\* the entry needs nothing from iwatch_update_flags under the current mask:
\* a watch holds it and the translation for the watch's type is not empty, or
\* no watch exists for its inode, its type is known and translates to nothing
Settled(s, n) ==
    LET di == s.deps[n]
        w  == watch_set_find(s, di.inode)
    IN  \/ /\ w # NoWatch /\ watch_find_dep(w, n)
           /\ inotify_to_kqueue(s.flags, w.flags, FALSE) # {}
        \/ /\ w = NoWatch /\ ~S_ISUNK(di.type)
           /\ inotify_to_kqueue(s.flags, di.type, FALSE) = {}

\* C7, amended: iwatch_update_flags with the current mask, IN_MASK_ADD not
\* set, creates a watch only under the inode of an entry that no watch held
\* before the call (the call retries iwatch_add_subwatch on it), and destroys
\* a watch only if the mask translates to no fflags for the watch's type; it
\* leaves the watch-set as it was when every entry is held by a watch whose
\* type translates to some fflags, or is unwatched with a known type that
\* translates to none.
C7_SameMaskUpdate ==
    (Live /\ "IN_MASK_ADD" \notin iw.flags) =>
        \A r \in iwatch_update_flags(iw, iw.flags) :
           /\ \A id \in WatchIds(r.s) \ WatchIds(iw) :
                 \E n \in InList(iw.deps) :
                    ~Held(iw, n) /\ r.s.deps[n].inode = id[1]
           /\ \A w \in iw.watches :
                 <<w.inode, w.fd>> \notin WatchIds(r.s)
                    => inotify_to_kqueue(iw.flags, w.flags, FALSE) = {}
           /\ (\A n \in InList(iw.deps) : Settled(iw, n))
                 => WatchIds(r.s) = WatchIds(iw)

\* iwatch_update_flags has been called with the mask it found, on a watch-set
\* with two child watches that it left alone
C7_Witness ==
    /\ Live /\ last.op = "update" /\ "IN_MASK_ADD" \notin iw.flags
    /\ Cardinality(Children(iw)) = 2
    /\ \A n \in InList(iw.deps) : Settled(iw, n)
    /\ \E r \in iwatch_update_flags(iw, iw.flags) : r.s = iw

\* the states of a call for entry n, whether or not a watch holds the entry
AnyAdd(n) ==
    IF n \in InList(iw.deps) THEN {iw}
    ELSE {SetDep(iw, n, di) : di \in DepItems}

\* every answer the system calls of one iwatch_add_subwatch call can give
AllEnvs ==
    [open : BOOLEAN, fstat : BOOLEAN, race : {"none", "replaced", "mount"},
     ino : Inodes, type : Types, winit : BOOLEAN, adddep : BOOLEAN,
     lstat : Types \cup {UNK}]

\* C8: once is_closed is set, iwatch_add_subwatch returns NULL and changes
\* nothing (watch-set, dependencies, the item, open descriptors), and it
\* attempts no open and no stat.
C8_ClosedAddIsNoop ==
    (Live /\ iw.is_closed) =>
        \A n \in Names : \A s \in AnyAdd(n) : \A e \in AllEnvs :
            iwatch_add_subwatch(s, n, e) = Result(s, NullRet, FALSE, FALSE, FALSE)

\* iwatch_add_subwatch has been called on a closed i_watch that has a child
\* watch, for an entry of unknown type
C8_Witness ==
    /\ Live /\ iw.is_closed /\ last.op = "add" /\ Children(iw) # {}
    /\ S_ISUNK(iw.deps[last.n].type) /\ ~Held(iw, last.n)

\* C9: with skip_subfiles set the watch-set holds the parent watch only, no
\* child descriptor is open or was opened by the last call, and
\* iwatch_add_subwatch changes nothing but the type of an entry whose type is
\* unknown.
C9_SkipSubfiles ==
    (Live /\ iw.skip_subfiles) =>
        /\ \A w \in iw.watches : w.kind = "USER" /\ w.inode = ParentInode
        /\ Cardinality(iw.watches) = 1
        /\ iw.fds = {ParentFd}
        /\ ~last.opened
        /\ \A n \in Names : \A s \in AnyAdd(n) : \A e \in AllEnvs :
              LET r == iwatch_add_subwatch(s, n, e)
              IN  /\ r.ret = NullRet /\ ~r.opened
                  /\ r.s = [s EXCEPT !.deps[n].type = r.s.deps[n].type]
                  /\ ~S_ISUNK(s.deps[n].type) => r.s = s

\* iwatch_add_subwatch has filled in the type of an entry of a directory
\* with two entries
C9_Witness ==
    /\ Live /\ iw.skip_subfiles /\ last.op = "add" /\ last.statted
    /\ Cardinality(InList(iw.deps)) = 2
    /\ ~S_ISUNK(iw.deps[last.n].type)

ZeroFor(s, n) ==
    /\ ~S_ISUNK(s.deps[n].type)
    /\ inotify_to_kqueue(s.flags, s.deps[n].type, FALSE) = {}

\* C10: after iwatch_init with a mask that translates to nothing for the type
\* of every entry there is no child watch; after an iwatch_update_flags in
\* which nothing failed, with a mask that translates to some fflags for the
\* type of every entry, every entry has a watch under its inode that holds
\* it.
C10_FlagUpgrade ==
    /\ (Live /\ last.op = "init" /\ \A n \in InList(iw.deps) : ZeroFor(iw, n))
          => Children(iw) = {}
    /\ (Live /\ last.op = "update" /\ ~last.fail
          /\ ~iw.is_closed /\ ~iw.skip_subfiles
          /\ \A n \in InList(iw.deps) :
                inotify_to_kqueue(iw.flags, iw.deps[n].type, FALSE) # {})
          => \A n \in InList(iw.deps) :
                LET w == watch_set_find(iw, iw.deps[n].inode)
                IN  w # NoWatch /\ watch_find_dep(w, n)

\* iwatch_update_flags has opened a child watch for each of two entries
C10_Witness ==
    /\ Live /\ last.op = "update" /\ last.opened /\ ~last.fail
    /\ Cardinality(InList(iw.deps)) = 2
    /\ Cardinality(Children(iw)) = 2
    /\ \A n \in InList(iw.deps) :
          /\ iw.deps[n].type = "REG"
          /\ watch_find_dep(watch_set_find(iw, iw.deps[n].inode), n)

\* the watches of s keyed by inode
Keyed(s, inode) == {w \in s.watches : w.inode = inode}

\* C11 as claimed: when fstat sees another inode of the same device,
\* iwatch_add_subwatch sets the item's inode to it and ends with exactly one
\* watch keyed by the new inode, which holds the item, and with no watch
\* keyed by the old inode.
C11_Original ==
    (Live /\ iw.mode = "DIR") =>
        \A n \in Names : \A s \in PreAdd(n) : \A e \in EnvFor(s, n) :
            e.race = "replaced" =>
                LET r == iwatch_add_subwatch(s, n, e)
                IN  /\ r.s.deps[n].inode = e.ino
                    /\ Cardinality(Keyed(r.s, e.ino)) = 1
                    /\ watch_find_dep(watch_set_find(r.s, e.ino), n)
                    /\ Keyed(r.s, s.deps[n].inode) = {}

\* C11, amended: when fstat sees another inode of the same device,
\* iwatch_add_subwatch sets the item's inode to it and creates no watch keyed
\* by the old inode.  A watch that exists for the new inode is adopted, the
\* descriptor just opened is closed, and the watch holds the item if
\* watch_add_dep succeeds.  Otherwise, if watch_init returns a watch (the
\* mask translates to some fflags for the new file's type and the
\* registration succeeds) and watch_add_dep succeeds, exactly one new watch
\* exists, keyed by the new inode and holding the item alone; if either
\* fails, the watch-set and the open descriptors are what they were.
C11_ReplaceRace ==
    (Live /\ iw.mode = "DIR") =>
        \A n \in Names : \A s \in PreAdd(n) : \A e \in EnvFor(s, n) :
            e.race = "replaced" =>
                LET r   == iwatch_add_subwatch(s, n, e)
                    st  == fstat(s, s.deps[n], e)
                    old == watch_set_find(s, e.ino)
                    new == watch_set_find(r.s, e.ino)
                IN  /\ r.opened /\ r.statted
                    /\ r.s.deps[n].inode = e.ino
                    /\ Keyed(r.s, s.deps[n].inode) = {}
                    /\ Cardinality(Keyed(r.s, e.ino)) <= 1
                    /\ old # NoWatch =>
                          /\ WatchIds(r.s) = WatchIds(s) /\ r.s.fds = s.fds
                          /\ r.ret = old.fd
                          /\ e.adddep => new.deps = <<n>> \o old.deps
                          /\ ~e.adddep => r.s.watches = s.watches
                    /\ old = NoWatch =>
                          IF /\ e.winit /\ e.adddep
                             /\ inotify_to_kqueue(s.flags, st.type, FALSE) # {}
                          THEN /\ r.s.watches = s.watches \cup {new}
                               /\ new.deps = <<n>> /\ new.kind = "DEPENDENCY"
                               /\ new.fd \notin s.fds
                               /\ r.s.fds = s.fds \cup {new.fd}
                               /\ r.ret = new.fd
                          ELSE r.s.watches = s.watches /\ r.s.fds = s.fds

\* an entry replaced since the listing was opened, and the watch that exists
\* for the new inode adopted it
C11_Witness ==
    /\ Live /\ last.op = "add" /\ last.opened /\ last.ret # NullRet
    /\ \E w \in Children(iw) :
          /\ w.fd = last.ret /\ Len(w.deps) >= 2 /\ watch_find_dep(w, last.n)
          /\ Cardinality(iw.fds) = Cardinality(iw.watches)

\* C12 as claimed: when fstat sees another inode on another device,
\* iwatch_add_subwatch leaves the item's inode as recorded and inserts the new
\* watch under it, so that iwatch_del_subwatch and iwatch_move_subwatch on
\* the item find that watch.
C12_Original ==
    (Live /\ iw.mode = "DIR") =>
        \A n \in Names : \A s \in PreAdd(n) : \A e \in EnvFor(s, n) :
            e.race = "mount" =>
                LET r == iwatch_add_subwatch(s, n, e)
                    w == watch_set_find(r.s, s.deps[n].inode)
                IN  /\ r.s.deps[n].inode = s.deps[n].inode
                    /\ w # NoWatch /\ w \notin s.watches
                    /\ watch_find_dep(w, n)

\* C12, amended: when fstat sees another inode on another device,
\* iwatch_add_subwatch leaves the item's inode as recorded and creates no
\* watch under any other inode.  If watch_init returns a watch (the mask
\* translates to some fflags for a directory and the registration succeeds)
\* and watch_add_dep succeeds, the new watch is in the watch-set under the
\* recorded inode and holds the item alone; a following iwatch_del_subwatch
\* on the item removes exactly that watch and closes its descriptor, and a
\* following iwatch_move_subwatch hands that watch over to the new item.  If
\* either fails, the watch-set and the open descriptors are what they were.
C12_Mountpoint ==
    (Live /\ iw.mode = "DIR") =>
        \A n \in Names : \A s \in PreAdd(n) : \A e \in EnvFor(s, n) :
            e.race = "mount" =>
                LET r   == iwatch_add_subwatch(s, n, e)
                    st  == fstat(s, s.deps[n], e)
                    ino == s.deps[n].inode
                    w   == watch_set_find(r.s, ino)
                    d   == iwatch_del_subwatch(r.s, n)
                IN  /\ r.opened /\ r.statted /\ st.ino # ino /\ ~st.same
                    /\ r.s.deps[n].inode = ino
                    /\ ~r.s.dupInsert
                    /\ \A v \in r.s.watches \ s.watches : v.inode = ino
                    /\ IF /\ e.winit /\ e.adddep
                          /\ inotify_to_kqueue(s.flags, st.type, FALSE) # {}
                       THEN /\ r.s.watches = s.watches \cup {w}
                            /\ w \notin s.watches
                            /\ w.deps = <<n>> /\ w.flags = st.type
                            /\ r.ret = w.fd /\ r.s.fds = s.fds \cup {w.fd}
                            /\ d.watches = s.watches /\ d.fds = s.fds
                            /\ \A m \in Names \ {n} :
                                  iwatch_move_subwatch(r.s, n, m).watches
                                     = s.watches \cup {[w EXCEPT !.deps = <<m>>]}
                       ELSE r.s.watches = s.watches /\ r.s.fds = s.fds

\* beside a child watch, an entry of unknown type turns out to be a
\* mountpoint and gets a watch under the inode the listing gave
C12_Witness ==
    /\ Live /\ iw.mode = "DIR" /\ Children(iw) # {}
    /\ \E n \in Names : \E s \in PreAdd(n) : \E e \in EnvFor(s, n) :
          LET r == iwatch_add_subwatch(s, n, e)
              w == watch_set_find(r.s, s.deps[n].inode)
          IN  /\ e.race = "mount" /\ r.ret # NullRet
              /\ w # NoWatch /\ w.deps = <<n>> /\ w.fd = r.ret
              /\ Cardinality(r.s.watches) = Cardinality(s.watches) + 1

\* watch_open, fstat, or the watch_init of line 262 fails in the call of
\* iwatch_add_subwatch for entry n in s under the answers e
ChildFails(s, n, e) ==
    LET st == fstat(s, s.deps[n], e)
    IN  \/ ~e.open
        \/ ~e.fstat
        \/ /\ ~(e.race = "replaced" /\ watch_set_find(s, st.ino) # NoWatch)
           /\ \/ ~e.winit
              \/ inotify_to_kqueue(s.flags, st.type, FALSE) = {}

\* C13: when watch_open, fstat or watch_init fails in iwatch_add_subwatch,
\* the call returns NULL, the watch-set and the open descriptors are what
\* they were (no watch for the child, no descriptor left open, the parent
\* watch still there) and the item is still in the snapshot; an iwatch_init
\* in whose loop this happened returns an i_watch whose parent is watched.
C13_ChildFailure ==
    /\ (Live /\ iw.mode = "DIR") =>
          \A n \in Names : \A s \in PreAdd(n) : \A e \in EnvFor(s, n) :
             LET r == iwatch_add_subwatch(s, n, e)
             IN  (r.opened /\ ChildFails(s, n, e)) =>
                    /\ r.ret = NullRet /\ r.fail
                    /\ r.s.watches = s.watches
                    /\ r.s.fds = s.fds
                    /\ ~r.s.doubleClose
                    /\ watch_find_dep(watch_set_find(r.s, ParentInode), DI_PARENT)
                    /\ n \in InList(r.s.deps)
                    /\ \A m \in Names \ {n} : r.s.deps[m] = s.deps[m]
    /\ (last.op = "init" /\ last.opened) =>
          /\ Live
          /\ watch_find_dep(watch_set_find(iw, ParentInode), DI_PARENT)
          /\ last.fail =>
                Cardinality(iw.fds) = Cardinality(iw.watches)

\* iwatch_init returned an i_watch for a directory of two entries, neither
\* of which could be watched: both opens were attempted, only the parent's
\* descriptor is open
C13_Witness ==
    /\ Live /\ last.op = "init" /\ last.opened /\ last.fail
    /\ Cardinality(InList(iw.deps)) = 2
    /\ \A n \in InList(iw.deps) :
          inotify_to_kqueue(iw.flags, iw.deps[n].type, FALSE) # {}
    /\ Children(iw) = {} /\ iw.fds = {ParentFd}
    /\ Cardinality(iw.watches) = 1

\* C14: after an iwatch_init that returned NULL nothing of the i_watch
\* remains: the watch-set and the snapshot are empty, no watch created during
\* the call is left allocated and registered outside the watch-set, and no
\* descriptor but the caller's is open.
C14_InitFailure ==
    pc = "failed" =>
        /\ iw.watches = {}
        /\ iw.orphans = {}
        /\ InList(iw.deps) = {}
        /\ iw.fds = {ParentFd}
        /\ ~iw.doubleClose

\* a watch without its dependencies: key, descriptor, type, registration
Bare(w) == [w EXCEPT !.deps = <<>>]

\* C15: iwatch_move_subwatch (iw, di_from, di_to) changes nothing but the
\* reference to di_from stored in the watch found under the inode, which
\* becomes a reference to di_to: the watches, their keys, descriptors and
\* registered fflags stay, and so does everything else; without a watch for
\* the inode nothing changes at all.
C15_MoveKeepsWatches ==
    (Live /\ iw.mode = "DIR") =>
        \A from \in InList(iw.deps) : \A to \in Names \ {from} :
            LET t == iwatch_move_subwatch(iw, from, to)
                w == watch_set_find(iw, iw.deps[from].inode)
                v == watch_set_find(t, iw.deps[from].inode)
            IN  /\ [t EXCEPT !.watches = iw.watches] = iw
                /\ {Bare(x) : x \in t.watches} = {Bare(x) : x \in iw.watches}
                /\ Cardinality(t.watches) = Cardinality(iw.watches)
                /\ t.watches \ {v} = iw.watches \ {w}
                /\ w = NoWatch => t = iw
                /\ w # NoWatch =>
                      /\ Len(v.deps) = Len(w.deps)
                      /\ \A i \in 1 .. Len(w.deps) :
                            v.deps[i] = w.deps[i]
                               \/ (w.deps[i] = from /\ v.deps[i] = to)
                      /\ watch_find_dep(w, from) =>
                            /\ watch_find_dep(v, to)
                            /\ Cardinality({i \in 1 .. Len(w.deps) :
                                               v.deps[i] # w.deps[i]}) = 1
                      /\ ~watch_find_dep(w, from) => t = iw

\* the only entry of the directory was renamed, and its child watch now
\* holds the item of the new name
C15_Witness ==
    /\ Live /\ last.op = "move"
    /\ Cardinality(InList(iw.deps)) = 1
    /\ \E w \in Children(iw) : \E n \in InList(iw.deps) :
          w.deps = <<n>> /\ w.inode = iw.deps[n].inode

\* the i_watch with the item of name b, listed anew with the inode of entry a
Renamed(s, a, b) == SetDep(s, b, s.deps[a])

C18_MaskMerge ==
    Live =>
        \A m \in MaskInputs \cup {iw.flags} :
            \A r \in iwatch_update_flags(iw, m) :
               /\ "IN_MASK_ADD" \in m =>
                     /\ r.s.flags = m \cup iw.flags
                     /\ iw.flags \subseteq r.s.flags
               /\ "IN_MASK_ADD" \notin m =>
                     /\ r.s.flags = m
                     /\ r.s.flags \cap (iw.flags \ m) = {}

\* an iwatch_update_flags with IN_MASK_ADD has added IN_ATTRIB to a mask
\* that held IN_MODIFY
C18_Witness ==
    /\ Live /\ last.op = "update"
    /\ iw.flags = {"IN_MODIFY", "IN_ATTRIB", "IN_MASK_ADD"}

\* C19: after iwatch_update_flags, for every entry that the watch found
\* under its inode held before the call: if the new mask translates to no
\* fflags for the entry's type, no watch holds the entry, no watch is left
\* without dependency, and no descriptor is left open without a watch;
\* otherwise the same watch still holds the entry and, being a child watch,
\* is registered with the translation of the new mask for that type.
C19_UpdateHeld ==
    Live =>
        \A m \in MaskInputs \cup {iw.flags} :
            \A r \in iwatch_update_flags(iw, m) :
               \A n \in InList(iw.deps) :
                  LET w == watch_set_find(iw, iw.deps[n].inode)
                      v == watch_set_find(r.s, iw.deps[n].inode)
                      t == inotify_to_kqueue(r.s.flags, iw.deps[n].type, FALSE)
                  IN  (w # NoWatch /\ watch_find_dep(w, n)) =>
                         /\ iw.deps[n].type = w.flags
                         /\ r.s.deps[n] = iw.deps[n]
                         /\ t = {} =>
                               /\ ~Held(r.s, n)
                               /\ \A x \in r.s.watches : ~watch_deps_empty(x)
                               /\ \A fd \in r.s.fds :
                                     \E x \in r.s.watches : x.fd = fd
                               /\ ~r.s.doubleClose
                         /\ t # {} =>
                               /\ v # NoWatch /\ v.fd = w.fd /\ v.inode = w.inode
                               /\ v.fd \in r.s.fds
                               /\ watch_find_dep(v, n)
                               /\ v.kind = "DEPENDENCY" => v.fflags = t

\* two entries have a child watch each, a regular file and a directory: an
\* iwatch_update_flags to IN_MODIFY keeps and re-registers the first and
\* closes the second
C19_Witness ==
    /\ Live /\ last.op = "update" /\ Cardinality(Children(iw)) = 2
    /\ \E r \in iwatch_update_flags(iw, {"IN_MODIFY"}) :
          \E n \in InList(iw.deps) : \E k \in InList(iw.deps) :
             LET w == watch_set_find(iw, iw.deps[n].inode)
                 x == watch_set_find(iw, iw.deps[k].inode)
             IN  /\ w.kind = "DEPENDENCY" /\ w.deps = <<n>> /\ w.flags = "REG"
                 /\ x.kind = "DEPENDENCY" /\ x.deps = <<k>> /\ x.flags = "DIR"
                 /\ w.fflags # {"NOTE_WRITE"}
                 /\ watch_set_find(r.s, w.inode).fflags = {"NOTE_WRITE"}
                 /\ watch_set_find(r.s, x.inode) = NoWatch
                 /\ x.fd \notin r.s.fds

\* C20: when iwatch_update_flags returns, the parent watch is registered with
\* the translation of the new mask for the parent's file type with
\* is_parent = true, whatever the snapshot holds.
C20_ParentRegistration ==
    (Live /\ last.op = "update") =>
        LET w == watch_set_find(iw, ParentInode)
        IN  /\ w # NoWatch /\ w.kind = "USER"
            /\ w.fflags = inotify_to_kqueue(iw.flags, iw.mode, TRUE)

\* the answers that decide the path of one call: every combination of
\* success and failure of watch_open, fstat, watch_init and watch_add_dep,
\* with and without a replacement or a mountpoint, under every inode
PathEnvs ==
    {[DefaultEnv EXCEPT !.open = o, !.fstat = f, !.winit = i, !.adddep = a,
                        !.race = c, !.ino = j] :
        o \in BOOLEAN, f \in BOOLEAN, i \in BOOLEAN, a \in BOOLEAN,
        c \in {"none", "replaced", "mount"}, j \in Inodes}

\* the call attempts watch_open: the i_watch is neither closed nor skipping
\* subfiles, the watch-set has no watch for the inode recorded in the item,
\* and the item's type is unknown or translates to some fflags
WantsOpen(s, n) ==
    /\ ~s.is_closed /\ ~s.skip_subfiles
    /\ watch_set_find(s, s.deps[n].inode) = NoWatch
    /\ ~ZeroFor(s, n)

\* C21: iwatch_add_subwatch attempts to open the entry exactly when is_closed
\* and skip_subfiles are false, no watch exists for the inode recorded in the
\* item and the item's type is unknown or translates to some fflags; in every
\* other case no descriptor is opened; a watch that exists for the inode is
\* adopted (the call goes to the hold step with it, the item taking the
\* watch's type) whatever the translator says of the item's type.
C21_OpenOnlyWhen ==
    Live =>
        \A n \in Names : \A s \in AnyAdd(n) : \A e \in PathEnvs :
            LET r == iwatch_add_subwatch(s, n, e)
                w == watch_set_find(s, s.deps[n].inode)
            IN  /\ r.opened <=> WantsOpen(s, n)
                /\ ~WantsOpen(s, n) => r.s.fds \subseteq s.fds
                /\ (~s.is_closed /\ ~s.skip_subfiles /\ w # NoWatch) =>
                      /\ r.ret = w.fd
                      /\ r.s.deps[n] = di_settype(s.deps[n], w.flags)
                      /\ e.adddep =>
                            watch_find_dep(watch_set_find(r.s, w.inode), n)

\* the last call adopted the parent watch for an entry with the parent's
\* inode although the mask translates to nothing for the entry's type, and
\* another entry of the same type and mask was refused without an open
C21_Witness ==
    /\ Live /\ last.op = "add" /\ ~last.opened /\ last.ret = ParentFd
    /\ ZeroFor(iw, last.n)
    /\ watch_find_dep(watch_set_find(iw, ParentInode), last.n)
    /\ \E k \in InList(iw.deps) :
          /\ ZeroFor(iw, k) /\ ~Held(iw, k)
          /\ watch_set_find(iw, iw.deps[k].inode) = NoWatch

\* C22: whenever iwatch_add_subwatch returns a watch, that watch is in the
\* watch-set when the call returns and holds the item among its dependencies;
\* the call never returns a watch that its hold step removed from the
\* watch-set.
C22_ReturnedWatchHolds ==
    (Live /\ iw.mode = "DIR") =>
        \A n \in Names : \A s \in PreAdd(n) : \A e \in EnvFor(s, n) :
            LET r == iwatch_add_subwatch(s, n, e)
            IN  r.ret # NullRet =>
                   \E w \in r.s.watches : w.fd = r.ret /\ watch_find_dep(w, n)

====
